---------------------------- MODULE Spec2Model ----------------------------
(***************************************************************************)
(* A model of assistant.py: the record collections (tasks, notes,          *)
(* reminders, dictionary history) kept as JSON files, the startup repair   *)
(* of those files, and the free-text command loop of main().               *)
(*                                                                         *)
(* Text is modelled as a sequence of one-character strings, so that        *)
(* split, strip, startswith, substring containment and strptime are        *)
(* computed character by character as Python computes them.               *)
(***************************************************************************)
EXTENDS Integers, Sequences, FiniteSets, TLC

VARIABLES
    files,    \* slot -> content of the file on disk
    out,      \* what speak() was handed during the last operation
    last,     \* the operation that ran last, with its argument
    issued,   \* history: the ids add_task has assigned, in order
    clock,    \* minutes elapsed on the wall clock since StartTime
    input,    \* the line main() read last, stripped and lowered
    reads,    \* how many lines main() has read
    pc        \* position of the process: "startup", "running", "exited", "crashed"

vars == <<files, out, last, issued, clock, input, reads, pc>>

-----------------------------------------------------------------------------
(* Bounds of the model *)

\* add_task calls in one behaviour
MaxAdds == 3
\* add_reminder calls that persist in one behaviour
MaxReminders == 2
\* minutes the wall clock advances in one behaviour
MaxClock == 2
\* lines main() reads in one behaviour
MaxLines == 2
\* add_note calls in one behaviour of the startup specification
MaxNotes == 1

-----------------------------------------------------------------------------
(* Text: str methods of Python on sequences of characters *)

Digits == <<"0", "1", "2", "3", "4", "5", "6", "7", "8", "9">>

IsDigit(c) == \E i \in 1..Len(Digits) : Digits[i] = c

DigitVal(c) == (CHOOSE i \in 1..Len(Digits) : Digits[i] = c) - 1

IsSpace(c) == c \in {" ", "\t", "\n", "\r"}

UpperCase == <<"A", "B", "C", "D", "E", "F", "G", "H", "I", "J", "K", "L", "M",
               "N", "O", "P", "Q", "R", "S", "T", "U", "V", "W", "X", "Y", "Z">>

LowerCase == <<"a", "b", "c", "d", "e", "f", "g", "h", "i", "j", "k", "l", "m",
               "n", "o", "p", "q", "r", "s", "t", "u", "v", "w", "x", "y", "z">>

LowerChar(c) ==
    IF \E i \in 1..26 : UpperCase[i] = c
    THEN LowerCase[CHOOSE i \in 1..26 : UpperCase[i] = c]
    ELSE c

\* str.lower()
Lower(s) == [i \in 1..Len(s) |-> LowerChar(s[i])]

\* str.strip(): leading and trailing whitespace removed
Strip(s) ==
    LET keep == {i \in 1..Len(s) : ~IsSpace(s[i])}
    IN  IF keep = {} THEN <<>>
        ELSE LET lo == CHOOSE i \in keep : \A j \in keep : i <= j
                 hi == CHOOSE i \in keep : \A j \in keep : j <= i
             IN  SubSeq(s, lo, hi)

\* str.startswith(p)
StartsWith(s, p) == Len(p) <= Len(s) /\ SubSeq(s, 1, Len(p)) = p

\* the positions at which p occurs in s
Occurrences(s, p) ==
    {i \in 1..(Len(s) - Len(p) + 1) : SubSeq(s, i, i + Len(p) - 1) = p}

\* p in s
Contains(s, p) == Occurrences(s, p) # {}

\* any(word in s for word in words)
ContainsAny(s, words) == \E w \in words : Contains(s, w)

\* s.replace(p, "", 1): the first occurrence of p removed
RemoveFirst(s, p) ==
    IF ~Contains(s, p) THEN s
    ELSE LET i == CHOOSE k \in Occurrences(s, p) : \A j \in Occurrences(s, p) : k <= j
         IN  SubSeq(s, 1, i - 1) \o SubSeq(s, i + Len(p), Len(s))

\* s.split(";"): the fields between the separators, at least one
RECURSIVE Split(_, _)
Split(s, sep) ==
    LET at == {i \in 1..Len(s) : s[i] = sep}
    IN  IF at = {} THEN <<s>>
        ELSE LET i == CHOOSE k \in at : \A j \in at : k <= j
             IN  <<SubSeq(s, 1, i - 1)>> \o Split(SubSeq(s, i + 1, Len(s)), sep)

\* sep.join(parts)
RECURSIVE Join(_, _)
Join(parts, sep) ==
    IF parts = <<>> THEN <<>>
    ELSE IF Len(parts) = 1 THEN parts[1]
    ELSE parts[1] \o <<sep>> \o Join(Tail(parts), sep)

\* ''.join(filter(str.isdigit, s))
RECURSIVE FilterDigits(_)
FilterDigits(s) ==
    IF s = <<>> THEN <<>>
    ELSE (IF IsDigit(Head(s)) THEN <<Head(s)>> ELSE <<>>) \o FilterDigits(Tail(s))

\* int(s) of a non-empty run of decimal digits
RECURSIVE DecimalValue(_)
DecimalValue(s) ==
    IF s = <<>> THEN 0
    ELSE 10 * DecimalValue(SubSeq(s, 1, Len(s) - 1)) + DigitVal(s[Len(s)])

-----------------------------------------------------------------------------
(* The files: a file's text is represented by what json reads from it *)

Slots == {"tasks", "notes", "reminders", "history"}

\* the value json.loads returns: a list, or another JSON value
JsonArray(items) == [jtype |-> "array", items |-> items]
JsonOther(t) == [jtype |-> t, items |-> <<>>]

\* a file holding the JSON text of value v
JsonFile(v) == [kind |-> "json", val |-> v]

\* a missing file, an empty (or all-blank) file, a file json cannot parse
AbsentFile == [kind |-> "absent", val |-> JsonOther("none")]
BlankFile == [kind |-> "blank", val |-> JsonOther("none")]
InvalidFile(why) == [kind |-> why, val |-> JsonOther("none")]

EmptyListFile == JsonFile(JsonArray(<<>>))

\* ensure_file(path): the content of the file after the call
ensure_file(content) ==
    IF content.kind = "absent" THEN EmptyListFile
    ELSE IF content.kind = "blank" THEN EmptyListFile
    ELSE IF content.kind = "json" THEN content
    ELSE EmptyListFile

\* load_json(path): what the call returns
load_json(content) ==
    IF content.kind = "json" THEN content.val ELSE JsonArray(<<>>)

\* save_json(path, data): the content of the file after the call
save_json(data) == JsonFile(JsonArray(data))

\* the list a slot holds, for slots that hold one
Items(slot) == load_json(files[slot]).items

load_tasks == load_json(files["tasks"])

-----------------------------------------------------------------------------
(* The Notifier *)

Msg(m, id, text) == [msg |-> m, id |-> id, text |-> text]

\* speak(text): one message handed to the Notifier
speak(m, id, text) == <<Msg(m, id, text)>>

ErrorMsgs == {"invalid_task_number", "provide_task", "provide_task_id",
              "provide_note", "provide_keyword", "invalid_datetime",
              "reminder_format", "provide_city", "provide_word",
              "unknown_command"}

NoOp == [op |-> "none", id |-> 0, text |-> <<>>]

Op(name, id, text) == [op |-> name, id |-> id, text |-> text]

-----------------------------------------------------------------------------
(* Tasks *)

\* max(S) of a non-empty set of integers
MaxOf(S) ==
    CHOOSE y \in S : \A z \in S : z <= y

\* a plausible slip: the next id taken from the length of the list
get_new_id_by_length(tasks) == Len(tasks) + 1

\* get_new_id(tasks)
get_new_id(tasks) == MaxOf({tasks[i].id : i \in 1..Len(tasks)} \cup {0}) + 1

NoDue == <<>>

\* the task add_task(value) builds, given the list it loaded
NewTask(value, tasks) ==
    LET parts == Split(value, ";")
        task_name == Strip(parts[1])
        due_date == IF Len(parts) > 1 /\ Strip(parts[2]) # <<>>
                    THEN Strip(parts[2]) ELSE NoDue
        priority == IF Len(parts) > 2 /\ Strip(parts[3]) # <<>>
                    THEN Lower(Strip(parts[3])) ELSE <<"m", "e", "d", "i", "u", "m">>
    IN  [id |-> get_new_id(tasks), task |-> task_name, status |-> "pending",
         priority |-> priority, due |-> due_date]

\* an exception nothing catches: the process ends
Crash ==
    /\ pc' = "crashed"
    /\ out' = <<>>
    /\ UNCHANGED <<files, issued>>

\* add_task(value)
add_task(value) ==
    LET loaded == load_tasks
        task == NewTask(value, loaded.items)
    IN  IF loaded.jtype # "array"
        THEN Crash /\ last' = Op("add_task", 0, value)
        ELSE /\ files' = [files EXCEPT !["tasks"] = save_json(Append(loaded.items, task))]
             /\ out' = speak("task_added", task.id, task.task)
             /\ issued' = Append(issued, task.id)
             /\ last' = Op("add_task", task.id, value)
             /\ pc' = pc

\* the line show_tasks prints for task t
TaskLine(t) ==
    Msg(IF t.status = "done" THEN "task_done" ELSE "task_not_done", t.id, t.task)

\* show_tasks()
show_tasks ==
    LET loaded == load_tasks
    IN  /\ last' = Op("show_tasks", 0, <<>>)
        /\ IF loaded.jtype = "array" /\ loaded.items # <<>>
           THEN out' = [i \in 1..Len(loaded.items) |-> TaskLine(loaded.items[i])]
           ELSE out' = speak("no_tasks", 0, <<>>)
        /\ UNCHANGED <<files, issued, pc>>

\* the positions of the tasks whose id is task_id
Matches(tasks, task_id) == {i \in 1..Len(tasks) : tasks[i].id = task_id}

\* a plausible slip: completing a task toggles its status
MarkDoneToggle(tasks, i) ==
    [tasks EXCEPT ![i].status = IF @ = "done" THEN "pending" ELSE "done"]

\* a plausible slip: the id test left out, every task marked
MarkDoneAll(tasks, i) == [k \in 1..Len(tasks) |-> [tasks[k] EXCEPT !.status = "done"]]

\* t["status"] = "done" on the task at position i
MarkDone(tasks, i) == [tasks EXCEPT ![i].status = "done"]

\* complete_task(task_id)
complete_task(task_id) ==
    LET loaded == load_tasks
        tasks == loaded.items
        found == Matches(tasks, task_id)
    IN  /\ last' = Op("complete_task", task_id, <<>>)
        /\ IF loaded.jtype = "null" THEN Crash
           ELSE IF found # {}
           THEN LET first == CHOOSE i \in found : \A j \in found : i <= j
                IN  /\ files' = [files EXCEPT !["tasks"] = save_json(MarkDone(tasks, first))]
                    /\ out' = speak("task_completed", task_id, <<>>)
                    /\ UNCHANGED <<issued, pc>>
           ELSE /\ out' = speak("invalid_task_number", 0, <<>>)
                /\ UNCHANGED <<files, issued, pc>>

\* [t for t in tasks if t.get("id") != task_id]
WithoutId(tasks, task_id) ==
    SelectSeq(tasks, LAMBDA t : t.id # task_id)

\* remove_task(task_id)
remove_task(task_id) ==
    LET loaded == load_tasks
        tasks == loaded.items
        new_tasks == WithoutId(tasks, task_id)
    IN  /\ last' = Op("remove_task", task_id, <<>>)
        /\ IF loaded.jtype = "null" THEN Crash
           ELSE IF Len(new_tasks) # Len(tasks)
           THEN /\ files' = [files EXCEPT !["tasks"] = save_json(new_tasks)]
                /\ out' = speak("task_removed", task_id, <<>>)
                /\ UNCHANGED <<issued, pc>>
           ELSE /\ out' = speak("invalid_task_number", 0, <<>>)
                /\ UNCHANGED <<files, issued, pc>>

-----------------------------------------------------------------------------
(* Dates: datetime.strptime and strftime under "%Y-%m-%d %H:%M" *)

NoTime == [ok |-> FALSE, y |-> 0, mo |-> 0, d |-> 0, h |-> 0, mi |-> 0]

NoField == [ok |-> FALSE, val |-> 0, next |-> 0]

DigitAt(s, i) == i >= 1 /\ i <= Len(s) /\ IsDigit(s[i])

\* a numeric directive at position i: its two-digit alternatives (values
\* lo2..hi2) are tried before its one-digit alternative (values lo1..9)
Field(s, i, lo2, hi2, lo1) ==
    IF DigitAt(s, i) /\ DigitAt(s, i + 1)
       /\ 10 * DigitVal(s[i]) + DigitVal(s[i + 1]) \in lo2..hi2
    THEN [ok |-> TRUE, val |-> 10 * DigitVal(s[i]) + DigitVal(s[i + 1]), next |-> i + 2]
    ELSE IF DigitAt(s, i) /\ DigitVal(s[i]) \in lo1..9
    THEN [ok |-> TRUE, val |-> DigitVal(s[i]), next |-> i + 1]
    ELSE NoField

\* %Y: exactly four digits
FieldY(s, i) ==
    IF \A k \in i..(i + 3) : DigitAt(s, k)
    THEN [ok |-> TRUE, val |-> DecimalValue(SubSeq(s, i, i + 3)), next |-> i + 4]
    ELSE NoField

\* %d: 3[01] | [12]\d | 0[1-9] | [1-9] | a space and [1-9]
FieldD(s, i) ==
    IF Field(s, i, 1, 31, 1).ok THEN Field(s, i, 1, 31, 1)
    ELSE IF i + 1 <= Len(s) /\ s[i] = " " /\ DigitAt(s, i + 1) /\ DigitVal(s[i + 1]) >= 1
    THEN [ok |-> TRUE, val |-> DigitVal(s[i + 1]), next |-> i + 2]
    ELSE NoField

\* a literal character of the format
Literal(s, i, c) == i >= 1 /\ i <= Len(s) /\ s[i] = c

\* the blank of the format matches one or more whitespace characters:
\* the first position after i that holds none (0 when s[i] is not one)
SkipSpaces(s, i) ==
    IF i >= 1 /\ i <= Len(s) /\ IsSpace(s[i])
    THEN CHOOSE j \in (i + 1)..(Len(s) + 1) :
             /\ \A k \in i..(j - 1) : IsSpace(s[k])
             /\ (j = Len(s) + 1 \/ ~IsSpace(s[j]))
    ELSE 0

IsLeap(y) == (y % 4 = 0 /\ y % 100 # 0) \/ y % 400 = 0

DaysInMonth(y, mo) ==
    IF mo = 2 THEN (IF IsLeap(y) THEN 29 ELSE 28)
    ELSE IF mo \in {4, 6, 9, 11} THEN 30 ELSE 31

\* the regular expression strptime builds from the format, matched against
\* the whole of s: the fields it captures
StrpTimeMatch(s) ==
    LET fy == FieldY(s, 1)
        fm == Field(s, fy.next + 1, 1, 12, 1)
        fd == FieldD(s, fm.next + 1)
        sp == SkipSpaces(s, fd.next)
        fh == Field(s, sp, 0, 23, 0)
        fmi == Field(s, fh.next + 1, 0, 59, 0)
    IN  IF /\ fy.ok /\ Literal(s, fy.next, "-")
           /\ fm.ok /\ Literal(s, fm.next, "-")
           /\ fd.ok /\ sp # 0
           /\ fh.ok /\ Literal(s, fh.next, ":")
           /\ fmi.ok /\ fmi.next = Len(s) + 1
        THEN [ok |-> TRUE, y |-> fy.val, mo |-> fm.val, d |-> fd.val,
              h |-> fh.val, mi |-> fmi.val]
        ELSE NoTime

\* datetime.strptime(s, "%Y-%m-%d %H:%M"): ok is FALSE where it raises
\* ValueError (no match, text left over, year 0, a day the month has not)
StrpTime(s) ==
    LET t == StrpTimeMatch(s)
    IN  IF t.ok /\ t.y >= 1 /\ t.d <= DaysInMonth(t.y, t.mo) THEN t ELSE NoTime

\* the decimal digits of n >= 0
RECURSIVE Decimal(_)
Decimal(n) ==
    IF n < 10 THEN <<Digits[n + 1]>> ELSE Decimal(n \div 10) \o <<Digits[(n % 10) + 1]>>

\* n as at least w digits, zero-filled
RECURSIVE ZeroFill(_, _)
ZeroFill(s, w) == IF Len(s) >= w THEN s ELSE ZeroFill(<<"0">> \o s, w)

\* %Y is handed to the C library: a year below 1000 comes out zero-filled to
\* four digits on some platforms and bare on others (glibc:
\* datetime(999, 1, 1).strftime("%Y") is "999")
YearPaddings == BOOLEAN

\* t.strftime("%Y-%m-%d %H:%M")
StrfTime(t, padYear) ==
    (IF padYear THEN ZeroFill(Decimal(t.y), 4) ELSE Decimal(t.y))
    \o <<"-">> \o ZeroFill(Decimal(t.mo), 2)
    \o <<"-">> \o ZeroFill(Decimal(t.d), 2)
    \o <<" ">> \o ZeroFill(Decimal(t.h), 2)
    \o <<":">> \o ZeroFill(Decimal(t.mi), 2)

\* the minute after t
NextMinute(t) ==
    IF t.mi < 59 THEN [t EXCEPT !.mi = @ + 1]
    ELSE IF t.h < 23 THEN [t EXCEPT !.mi = 0, !.h = @ + 1]
    ELSE IF t.d < DaysInMonth(t.y, t.mo) THEN [t EXCEPT !.mi = 0, !.h = 0, !.d = @ + 1]
    ELSE IF t.mo < 12 THEN [t EXCEPT !.mi = 0, !.h = 0, !.d = 1, !.mo = @ + 1]
    ELSE [t EXCEPT !.mi = 0, !.h = 0, !.d = 1, !.mo = 1, !.y = @ + 1]

RECURSIVE AddMinutes(_, _)
AddMinutes(t, n) == IF n = 0 THEN t ELSE AddMinutes(NextMinute(t), n - 1)

\* the wall clock when the behaviour starts
StartTime == [ok |-> TRUE, y |-> 2025, mo |-> 2, d |-> 28, h |-> 23, mi |-> 59]

\* datetime.now(), to the minute
Now == AddMinutes(StartTime, clock)

-----------------------------------------------------------------------------
(* Reminders *)

load_reminders == load_json(files["reminders"])

Reminder(text, time) == [text |-> text, time |-> time]

\* add_reminder(text, date_str, time_str)
add_reminder(text, date_str, time_str) ==
    LET reminder_time == StrpTime(date_str \o <<" ">> \o time_str)
        loaded == load_reminders
    IN  /\ last' = Op("add_reminder", 0, date_str \o <<" ">> \o time_str)
        /\ IF ~reminder_time.ok
           THEN /\ out' = speak("invalid_datetime", 0, <<>>)
                /\ UNCHANGED <<files, issued, pc>>
           ELSE IF loaded.jtype # "array" THEN Crash
           ELSE \E padYear \in YearPaddings :
                  /\ files' = [files EXCEPT !["reminders"] =
                        save_json(Append(loaded.items,
                                         Reminder(text, StrfTime(reminder_time, padYear))))]
                  /\ out' = speak("reminder_set", 0, text)
                  /\ UNCHANGED <<issued, pc>>

\* the minute a is before the minute b
Earlier(a, b) ==
    \/ a.y < b.y
    \/ a.y = b.y /\ a.mo < b.mo
    \/ a.y = b.y /\ a.mo = b.mo /\ a.d < b.d
    \/ a.y = b.y /\ a.mo = b.mo /\ a.d = b.d /\ a.h < b.h
    \/ a.y = b.y /\ a.mo = b.mo /\ a.d = b.d /\ a.h = b.h /\ a.mi < b.mi

\* a plausible slip: a reminder is due once its minute is reached or past
IsDueOrOverdue(r, now) ==
    \/ r.time = now
    \/ StrpTime(r.time).ok /\ Earlier(StrpTime(r.time), StrpTime(now))

\* r.get("time") == now
IsDue(r, now) == r.time = now

\* check_reminders()
check_reminders ==
    LET loaded == load_reminders
    IN  /\ last' = Op("check_reminders", 0, <<>>)
        /\ IF loaded.jtype = "null" THEN Crash
           ELSE \E padYear \in YearPaddings :
                  LET now == StrfTime(Now, padYear)
                      due == SelectSeq(loaded.items, LAMBDA r : IsDue(r, now))
                  IN  /\ IF due # <<>>
                         THEN out' = [i \in 1..Len(due) |-> Msg("REMINDER", 0, due[i].text)]
                         ELSE out' = speak("no_reminders_now", 0, <<>>)
                      /\ UNCHANGED <<files, issued, pc>>

\* show_reminders()
show_reminders ==
    LET loaded == load_reminders
    IN  /\ last' = Op("show_reminders", 0, <<>>)
        /\ IF loaded.jtype = "array" /\ loaded.items # <<>>
           THEN out' = [i \in 1..Len(loaded.items) |->
                           Msg("reminder", i, loaded.items[i].text)]
           ELSE out' = speak("no_reminders", 0, <<>>)
        /\ UNCHANGED <<files, issued, pc>>

-----------------------------------------------------------------------------
(* Notes *)

load_notes == load_json(files["notes"])

\* add_note(note)
add_note(note) ==
    LET loaded == load_notes
    IN  /\ last' = Op("add_note", 0, note)
        /\ IF loaded.jtype # "array" THEN Crash
           ELSE /\ files' = [files EXCEPT !["notes"] = save_json(Append(loaded.items, note))]
                /\ out' = speak("note_added", 0, note)
                /\ UNCHANGED <<issued, pc>>

\* show_notes()
show_notes ==
    LET loaded == load_notes
    IN  /\ last' = Op("show_notes", 0, <<>>)
        /\ IF loaded.jtype = "array" /\ loaded.items # <<>>
           THEN out' = [i \in 1..Len(loaded.items) |-> Msg("note", i, loaded.items[i])]
           ELSE out' = speak("no_notes", 0, <<>>)
        /\ UNCHANGED <<files, issued, pc>>

\* search_notes(keyword)
search_notes(keyword) ==
    LET loaded == load_notes
        found == SelectSeq(loaded.items, LAMBDA n : Contains(Lower(n), Lower(keyword)))
    IN  /\ last' = Op("search_notes", 0, keyword)
        /\ IF loaded.jtype = "null" THEN Crash
           ELSE /\ IF found # <<>>
                   THEN out' = [i \in 1..Len(found) |-> Msg("note", i, found[i])]
                   ELSE out' = speak("no_matching_notes", 0, <<>>)
                /\ UNCHANGED <<files, issued, pc>>

-----------------------------------------------------------------------------
(* The remote lookups: the answer of the service is the environment's *)

\* the seconds of datetime.now() when a word is saved
Seconds == {<<"0", "0">>, <<"5", "9">>}

\* save_word_to_history(word): the content of the history file after the call
save_word_to_history(word, padYear, sec) ==
    save_json(Append(load_json(files["history"]).items,
                     [word |-> word, date |-> StrfTime(Now, padYear) \o <<":">> \o sec]))

\* define_word(word): every exception is caught and spoken
define_word(word) ==
    /\ last' = Op("define_word", 0, word)
    /\ \E answered \in BOOLEAN :
          IF answered /\ load_json(files["history"]).jtype = "array"
          THEN \E padYear \in YearPaddings : \E sec \in Seconds :
                  /\ files' = [files EXCEPT !["history"] =
                                   save_word_to_history(word, padYear, sec)]
                  /\ out' = speak("definitions", 0, word)
                  /\ UNCHANGED <<issued, pc>>
          ELSE /\ out' = speak("no_definition", 0, word)
               /\ UNCHANGED <<files, issued, pc>>

\* get_weather(city), get_news(), get_random_fact(): spoken, nothing stored
lookup(name, arg) ==
    /\ last' = Op(name, 0, arg)
    /\ \E answered \in BOOLEAN :
          out' = speak(IF answered THEN name ELSE "lookup_failed", 0, arg)
    /\ UNCHANGED <<files, issued, pc>>

\* the vocabulary branch of main()
show_history ==
    LET loaded == load_json(files["history"])
    IN  /\ last' = Op("show_history", 0, <<>>)
        /\ IF loaded.jtype = "array" /\ loaded.items # <<>>
           THEN out' = speak("saved_words", Len(loaded.items), <<>>)
           ELSE out' = speak("no_history", 0, <<>>)
        /\ UNCHANGED <<files, issued, pc>>

-----------------------------------------------------------------------------
(* main(): one line of the free-text loop *)

ExitWords ==
    {<<"b", "y", "e">>,
     <<"e", "x", "i", "t">>,
     <<"q", "u", "i", "t">>,
     <<"g", "o", "o", "d", "b", "y", "e">>}

GreetWords ==
    {<<"h", "i">>,
     <<"h", "e", "l", "l", "o">>,
     <<"h", "e", "y">>,
     <<"g", "r", "e", "e", "t">>}

ShowTasksWords ==
    {<<"s", "h", "o", "w", " ", "t", "a", "s", "k", "s">>,
     <<"l", "i", "s", "t", " ", "t", "a", "s", "k", "s">>,
     <<"m", "y", " ", "t", "a", "s", "k", "s">>,
     <<"w", "h", "a", "t", " ", "a", "r", "e", " ", "m", "y", " ", "t", "a", "s", "k", "s">>}

ShowNotesWords ==
    {<<"s", "h", "o", "w", " ", "n", "o", "t", "e", "s">>,
     <<"l", "i", "s", "t", " ", "n", "o", "t", "e", "s">>,
     <<"m", "y", " ", "n", "o", "t", "e", "s">>}

ShowRemindersWords ==
    {<<"s", "h", "o", "w", " ", "r", "e", "m", "i", "n", "d", "e", "r", "s">>,
     <<"l", "i", "s", "t", " ", "r", "e", "m", "i", "n", "d", "e", "r", "s">>}

CheckRemindersWords ==
    {<<"c", "h", "e", "c", "k", " ", "r", "e", "m", "i", "n", "d", "e", "r", "s">>,
     <<"r", "e", "m", "i", "n", "d", "e", "r", "s", " ", "n", "o", "w">>}

WeatherWords ==
    {<<"w", "e", "a", "t", "h", "e", "r">>,
     <<"f", "o", "r", "e", "c", "a", "s", "t">>}

HistoryWords ==
    {<<"s", "h", "o", "w", " ", "h", "i", "s", "t", "o", "r", "y">>,
     <<"m", "y", " ", "v", "o", "c", "a", "b", "u", "l", "a", "r", "y">>,
     <<"v", "o", "c", "a", "b">>}

NewsWords ==
    {<<"n", "e", "w", "s">>,
     <<"h", "e", "a", "d", "l", "i", "n", "e", "s">>,
     <<"w", "h", "a", "t", "'", "s", " ", "n", "e", "w">>}

FactWords ==
    {<<"f", "a", "c", "t">>,
     <<"t", "e", "l", "l", " ", "m", "e", " ", "a", " ", "f", "a", "c", "t">>,
     <<"f", "u", "n", " ", "f", "a", "c", "t">>}

P_add_task == <<"a", "d", "d", " ", "t", "a", "s", "k">>
P_complete_task == <<"c", "o", "m", "p", "l", "e", "t", "e", " ", "t", "a", "s", "k">>
P_done == <<"d", "o", "n", "e">>
P_remove_task == <<"r", "e", "m", "o", "v", "e", " ", "t", "a", "s", "k">>
P_delete_task == <<"d", "e", "l", "e", "t", "e", " ", "t", "a", "s", "k">>
P_add_note == <<"a", "d", "d", " ", "n", "o", "t", "e">>
P_search_note == <<"s", "e", "a", "r", "c", "h", " ", "n", "o", "t", "e">>
P_add_reminder == <<"a", "d", "d", " ", "r", "e", "m", "i", "n", "d", "e", "r">>
P_define == <<"d", "e", "f", "i", "n", "e">>
P_whats_the_weather_in == <<"w", "h", "a", "t", "'", "s", " ", "t", "h", "e", " ", "w", "e", "a", "t", "h", "e", "r", " ", "i", "n">>
P_weather_in == <<"w", "e", "a", "t", "h", "e", "r", " ", "i", "n">>
P_weather == <<"w", "e", "a", "t", "h", "e", "r">>

\* the branch of the if/elif chain of main() that user_input takes
Route(u) ==
    IF ContainsAny(u, ExitWords) THEN "exit"
    ELSE IF ContainsAny(u, GreetWords) THEN "greet"
    ELSE IF StartsWith(u, P_add_task) THEN "add_task"
    ELSE IF ContainsAny(u, ShowTasksWords) THEN "show_tasks"
    ELSE IF StartsWith(u, P_complete_task) \/ StartsWith(u, P_done) THEN "complete_task"
    ELSE IF StartsWith(u, P_remove_task) \/ StartsWith(u, P_delete_task) THEN "remove_task"
    ELSE IF StartsWith(u, P_add_note) THEN "add_note"
    ELSE IF ContainsAny(u, ShowNotesWords) THEN "show_notes"
    ELSE IF StartsWith(u, P_search_note) THEN "search_note"
    ELSE IF StartsWith(u, P_add_reminder) THEN "add_reminder"
    ELSE IF ContainsAny(u, ShowRemindersWords) THEN "show_reminders"
    ELSE IF ContainsAny(u, CheckRemindersWords) THEN "check_reminders"
    ELSE IF ContainsAny(u, WeatherWords) THEN "weather"
    ELSE IF StartsWith(u, P_define) THEN "define"
    ELSE IF ContainsAny(u, HistoryWords) THEN "history"
    ELSE IF ContainsAny(u, NewsWords) THEN "news"
    ELSE IF ContainsAny(u, FactWords) THEN "fact"
    ELSE "unknown"

\* a branch that only speaks
say(name, m) ==
    /\ last' = Op(name, 0, <<>>)
    /\ out' = speak(m, 0, <<>>)
    /\ UNCHANGED <<files, issued, pc>>

\* the add task branch: what add_task is handed ("" when nothing is)
AddTaskInput(u) ==
    LET parts == Split(u, ";")
        task_info == Strip(RemoveFirst(parts[1], P_add_task))
    IN  IF Len(parts) > 1
        THEN task_info \o <<";">> \o Join(Tail(parts), ";")
        ELSE task_info

\* the city of the weather branch
City(u) ==
    Strip(RemoveFirst(RemoveFirst(RemoveFirst(u, P_whats_the_weather_in), P_weather_in),
                      P_weather))

\* the body of the while loop of main() for the line user_input
main(u) ==
    LET r == Route(u)
        digits == FilterDigits(u)
        parts == Split(u, ";")
    IN  CASE r = "exit" ->
               /\ last' = Op("exit", 0, <<>>)
               /\ out' = speak("goodbye", 0, <<>>)
               /\ pc' = "exited"
               /\ UNCHANGED <<files, issued>>
          [] r = "greet" -> say("greet", "hello")
          [] r = "add_task" ->
               IF AddTaskInput(u) # <<>>
               THEN Len(issued) < MaxAdds /\ add_task(AddTaskInput(u))
               ELSE say("add_task", "provide_task")
          [] r = "show_tasks" -> show_tasks
          [] r = "complete_task" ->
               IF digits # <<>> THEN complete_task(DecimalValue(digits))
               ELSE say("complete_task", "provide_task_id")
          [] r = "remove_task" ->
               IF digits # <<>> THEN remove_task(DecimalValue(digits))
               ELSE say("remove_task", "provide_task_id")
          [] r = "add_note" ->
               IF Strip(RemoveFirst(u, P_add_note)) # <<>>
               THEN add_note(Strip(RemoveFirst(u, P_add_note)))
               ELSE say("add_note", "provide_note")
          [] r = "show_notes" -> show_notes
          [] r = "search_note" ->
               IF Strip(RemoveFirst(u, P_search_note)) # <<>>
               THEN search_notes(Strip(RemoveFirst(u, P_search_note)))
               ELSE say("search_notes", "provide_keyword")
          [] r = "add_reminder" ->
               IF Len(parts) = 3
               THEN add_reminder(Strip(RemoveFirst(parts[1], P_add_reminder)),
                                 Strip(parts[2]), Strip(parts[3]))
               ELSE say("add_reminder", "reminder_format")
          [] r = "show_reminders" -> show_reminders
          [] r = "check_reminders" -> check_reminders
          [] r = "weather" ->
               IF City(u) # <<>> THEN lookup("weather", City(u))
               ELSE say("weather", "provide_city")
          [] r = "define" ->
               IF Strip(RemoveFirst(u, P_define)) # <<>>
               THEN define_word(Strip(RemoveFirst(u, P_define)))
               ELSE say("define_word", "provide_word")
          [] r = "history" -> show_history
          [] r = "news" -> lookup("news", <<>>)
          [] r = "fact" -> say("fact", "fun_fact")
          [] OTHER -> say("unknown", "unknown_command")

-----------------------------------------------------------------------------
(* The task collection driven operation by operation, from empty files *)

T_a == <<"a">>
T_b == <<"b", ";", "2", "0", "2", "5", "-", "0", "9", "-", "0", "1", ";", "H", "i", "g", "h">>
T_c == <<" ", "c", " ", ";", ";", "l", "o", "w">>

\* the arguments add_task is called with
TaskValues == {T_a, T_b, T_c}

\* the ids complete_task and remove_task are called with
TaskIds == 0..(MaxAdds + 1)

AllEmpty == [s \in Slots |-> EmptyListFile]

Init ==
    /\ files = AllEmpty
    /\ out = <<>>
    /\ last = NoOp
    /\ issued = <<>>
    /\ clock = 0
    /\ input = <<>>
    /\ reads = 0
    /\ pc = "running"

AddTask ==
    \E value \in TaskValues :
        /\ pc = "running"
        /\ Len(issued) < MaxAdds
        /\ add_task(value)
        /\ UNCHANGED <<clock, input, reads>>

ShowTasks == pc = "running" /\ show_tasks /\ UNCHANGED <<clock, input, reads>>

CompleteTask == \E id \in TaskIds : pc = "running" /\ complete_task(id) /\ UNCHANGED <<clock, input, reads>>

RemoveTask == \E id \in TaskIds : pc = "running" /\ remove_task(id) /\ UNCHANGED <<clock, input, reads>>

Next == AddTask \/ ShowTasks \/ CompleteTask \/ RemoveTask

Spec == Init /\ [][Next]_vars

-----------------------------------------------------------------------------
(* Properties of the task collection *)

Tasks == Items("tasks")

IdsOf(tasks) == {tasks[i].id : i \in 1..Len(tasks)}

OtherSlotsUnchanged(slot) == \A s \in Slots \ {slot} : files'[s] = files[s]

\* C1: the ids successive add_task calls assign are strictly increasing, hence
\* pairwise distinct, whatever remove_task calls come between them: an id
\* assigned once is never assigned again.
C1_IdsNeverReused ==
    \A i \in 1..Len(issued) : \A j \in 1..Len(issued) :
        i < j => issued[i] < issued[j]

\* a step of add_task that persisted a task
AddStep == Len(issued') = Len(issued) + 1

UniqueIds(tasks) ==
    \A i \in 1..Len(tasks) : \A j \in 1..Len(tasks) :
        tasks[i].id = tasks[j].id => i = j

\* C2: no two persisted tasks ever have the same id, and every add_task
\* assigns 1 + the largest id present (1 when the collection is empty) to the
\* task it appends.
C2_UniqueIdsNextIsMaxPlusOne ==
    [][/\ UniqueIds(Tasks')
       /\ AddStep =>
            /\ Len(Tasks') = Len(Tasks) + 1
            /\ Tasks'[Len(Tasks')].id = issued'[Len(issued')]
            /\ \A k \in IdsOf(Tasks) : k < Tasks'[Len(Tasks')].id
            /\ \/ Tasks = <<>> /\ Tasks'[Len(Tasks')].id = 1
               \/ Tasks'[Len(Tasks')].id - 1 \in IdsOf(Tasks)]_vars

\* C2 witness: the third add_task came after a removal and left two tasks,
\* the new one with the id after the other's
C2_Witness ==
    /\ last.op = "add_task"
    /\ Len(issued) = 3
    /\ Len(Tasks) = 2
    /\ Tasks[2].id = last.id
    /\ Tasks[2].id = Tasks[1].id + 1

\* C3: complete_task(id) on an id that is present sets that task's status to
\* done and changes nothing else (no other task, no other field, not the
\* order, no other slot); on an id that is not present it changes no slot and
\* speaks the invalid-number notice.
C3_CompleteFrame ==
    [][last'.op = "complete_task" =>
        IF last'.id \in IdsOf(Tasks)
        THEN /\ Len(Tasks') = Len(Tasks)
             /\ \A i \in 1..Len(Tasks) :
                    Tasks'[i] = IF Tasks[i].id = last'.id
                                THEN [Tasks[i] EXCEPT !.status = "done"]
                                ELSE Tasks[i]
             /\ OtherSlotsUnchanged("tasks")
             /\ out' = speak("task_completed", last'.id, <<>>)
        ELSE /\ files' = files
             /\ out' = speak("invalid_task_number", 0, <<>>)]_vars

\* C3 witness: a task was completed while another stayed pending
C3_Witness ==
    /\ last.op = "complete_task"
    /\ out = speak("task_completed", last.id, <<>>)
    /\ \E i \in 1..Len(Tasks) : Tasks[i].id = last.id /\ Tasks[i].status = "done"
    /\ \E i \in 1..Len(Tasks) : Tasks[i].id # last.id /\ Tasks[i].status = "pending"

\* what remove_task(id) does in one step: one task fewer when the id is
\* present, the rest kept in order; nothing written otherwise
RemoveStepExact ==
    last'.op = "remove_task" =>
        IF last'.id \in IdsOf(Tasks)
        THEN /\ Len(Tasks') = Len(Tasks) - 1
             /\ last'.id \notin IdsOf(Tasks')
             /\ Tasks' = SelectSeq(Tasks, LAMBDA t : t.id # last'.id)
             /\ OtherSlotsUnchanged("tasks")
             /\ out' = speak("task_removed", last'.id, <<>>)
        ELSE /\ files' = files
             /\ out' = speak("invalid_task_number", 0, <<>>)

\* an id that was assigned and is no longer present: it was removed
Removed(k) ==
    /\ \E i \in 1..Len(issued) : issued[i] = k
    /\ k \notin IdsOf(Tasks)

\* C4: remove_task(id) shortens the collection by exactly one when the id is
\* present and by nothing (no write, invalid-number notice) otherwise, keeps
\* the remaining tasks and their order, and a removed id appears in no later
\* listing.
C4_RemoveNeverReappears ==
    [][/\ RemoveStepExact
       /\ \A k \in 1..(MaxAdds + 1) : Removed(k) => Removed(k)']_vars

\* the part of C4 about the step of remove_task alone
C4_RemoveStepOnly == [][RemoveStepExact]_vars

\* C8: a task is created pending, its status is only ever pending or done,
\* and a task that is done is done in the next state whenever a task with
\* its id is still there.
C8_StatusOnlyPendingToDone ==
    [][/\ AddStep => Tasks'[Len(Tasks')].status = "pending"
       /\ \A j \in 1..Len(Tasks') : Tasks'[j].status \in {"pending", "done"}
       /\ \A i \in 1..Len(Tasks) : \A j \in 1..Len(Tasks') :
              (Tasks[i].id = Tasks'[j].id /\ Tasks[i].status = "done")
                  => Tasks'[j].status = "done"]_vars

\* C8 witness: a task was added, pending, after an earlier one was completed,
\* and the earlier one is still done
C8_Witness ==
    /\ last.op = "add_task"
    /\ Len(Tasks) = 3
    /\ Tasks[1].status = "done"
    /\ Tasks[2].status = "pending"
    /\ Tasks[3].status = "pending"
    /\ last.id = Tasks[3].id

-----------------------------------------------------------------------------
(* The reminder collection driven operation by operation, under a clock *)

R_x == <<"x">>
R_y == <<"y">>

D_feb30 == <<"2", "0", "2", "5", "-", "0", "2", "-", "3", "0">>
D_mar1 == <<"2", "0", "2", "5", "-", "3", "-", "1">>
D_y999 == <<"0", "9", "9", "9", "-", "1", "2", "-", "3", "1">>

H_0001 == <<"0", ":", "1">>
H_0000 == <<"0", ":", "0", "0">>
H_2400 == <<"2", "4", ":", "0", "0">>

ReminderTexts == {R_x, R_y}
ReminderDates == {D_feb30, D_mar1, D_y999}
ReminderTimes == {H_0000, H_0001, H_2400}

\* the candidate inputs the calendar or the format rules out, listed by hand
BadDates == {D_feb30}
BadTimes == {H_2400}

Reminders == Items("reminders")

AddReminder ==
    \E text \in ReminderTexts : \E date_str \in ReminderDates : \E time_str \in ReminderTimes :
        /\ pc = "running"
        /\ Len(Reminders) < MaxReminders
        /\ add_reminder(text, date_str, time_str)
        /\ UNCHANGED <<clock, input, reads>>

CheckReminders == pc = "running" /\ check_reminders /\ UNCHANGED <<clock, input, reads>>

\* a minute passes
Tick ==
    /\ pc = "running"
    /\ clock < MaxClock
    /\ clock' = clock + 1
    /\ UNCHANGED <<files, out, last, issued, input, reads, pc>>

NextReminders == AddReminder \/ CheckReminders \/ Tick

SpecReminders == Init /\ [][NextReminders]_vars

-----------------------------------------------------------------------------
(* Properties of the reminder collection *)

\* the date and the time add_reminder was last called with
LastDateTime(date_str, time_str) == last'.text = date_str \o <<" ">> \o time_str

\* a step of add_reminder on an input that does not parse
RejectedInputStep ==
    /\ last'.op = "add_reminder"
    /\ clock' = clock
    /\ \E date_str \in ReminderDates : \E time_str \in ReminderTimes :
          /\ LastDateTime(date_str, time_str)
          /\ (date_str \in BadDates \/ time_str \in BadTimes)

\* what add_reminder does with an input that does not parse
RejectionExact ==
    RejectedInputStep =>
        /\ files' = files
        /\ out' = speak("invalid_datetime", 0, <<>>)

\* C5: add_reminder with a date and time that do not parse under
\* YYYY-MM-DD HH:MM speaks the invalid-format notice and changes no slot, and
\* so every persisted reminder has a time that parses under that format.
C5_RejectedOrParseable ==
    [][/\ RejectionExact
       /\ \A i \in 1..Len(Reminders') : StrpTime(Reminders'[i].time).ok]_vars

\* the part of C5 about rejected input alone
C5_RejectionOnly == [][RejectionExact]_vars

\* the part of C5 about persisted times, for input years of four significant digits
C5_ParseableFrom1000 ==
    \A i \in 1..Len(Reminders) :
        StrpTime(Reminders[i].time).ok \/ Len(Reminders[i].time) < 16

\* the reminders check_reminders is to surface now: those set for this minute
DueNow == SelectSeq(Reminders, LAMBDA r : StrpTime(r.time).ok /\ StrpTime(r.time) = Now)

\* C10: check_reminders speaks exactly the reminders set for the current
\* minute, in order (the no-reminders notice when there are none), changes no
\* slot, and speaks no reminder whose minute has already passed.
C10_CheckDueExactMinute ==
    [][(last'.op = "check_reminders" /\ clock' = clock) =>
        /\ files' = files
        /\ IF DueNow # <<>>
           THEN out' = [i \in 1..Len(DueNow) |-> Msg("REMINDER", 0, DueNow[i].text)]
           ELSE out' = speak("no_reminders_now", 0, <<>>)
        /\ \A k \in 1..Len(out') :
              out'[k].msg = "REMINDER" =>
                  \E i \in 1..Len(Reminders) :
                      /\ Reminders[i].text = out'[k].text
                      /\ StrpTime(Reminders[i].time).ok
                      /\ ~Earlier(StrpTime(Reminders[i].time), Now)]_vars

\* C10 witness: a check surfaced the reminder set for this minute and not the
\* one whose minute had passed
C10_Witness ==
    /\ last.op = "check_reminders"
    /\ Len(Reminders) = 2
    /\ StrpTime(Reminders[1].time).ok
    /\ Earlier(StrpTime(Reminders[1].time), Now)
    /\ StrpTime(Reminders[2].time) = Now
    /\ Reminders[1].text # Reminders[2].text
    /\ out = <<Msg("REMINDER", 0, Reminders[2].text)>>

-----------------------------------------------------------------------------
(* The free-text loop driven line by line, from empty files *)

\* 'add task a'
L_add_task_a ==
    <<"a", "d", "d", " ", "t", "a", "s", "k", " ", "a">>

\* ' Add Task b;2025-09-01;High'
L_add_task_full ==
    <<" ", "A", "d", "d", " ", "T", "a", "s", "k", " ", "b", ";", "2", "0", "2", "5", "-", "0", "9", "-", "0", "1", ";", "H", "i", "g", "h">>

\* 'add task ;2025-09-01'
L_add_task_empty_desc ==
    <<"a", "d", "d", " ", "t", "a", "s", "k", " ", ";", "2", "0", "2", "5", "-", "0", "9", "-", "0", "1">>

\* 'add task'
L_add_task_nothing ==
    <<"a", "d", "d", " ", "t", "a", "s", "k">>

\* 'add task this'
L_add_task_this ==
    <<"a", "d", "d", " ", "t", "a", "s", "k", " ", "t", "h", "i", "s">>

\* 'add task c;soon'
L_add_task_bad_due ==
    <<"a", "d", "d", " ", "t", "a", "s", "k", " ", "c", ";", "s", "o", "o", "n">>

\* 'done 1'
L_done_1 ==
    <<"d", "o", "n", "e", " ", "1">>

\* 'complete task x'
L_complete_task_x ==
    <<"c", "o", "m", "p", "l", "e", "t", "e", " ", "t", "a", "s", "k", " ", "x">>

\* 'remove task 1'
L_remove_task_1 ==
    <<"r", "e", "m", "o", "v", "e", " ", "t", "a", "s", "k", " ", "1">>

\* 'delete task'
L_delete_task ==
    <<"d", "e", "l", "e", "t", "e", " ", "t", "a", "s", "k">>

\* 'show tasks'
L_show_tasks ==
    <<"s", "h", "o", "w", " ", "t", "a", "s", "k", "s">>

\* 'add note n'
L_add_note_n ==
    <<"a", "d", "d", " ", "n", "o", "t", "e", " ", "n">>

\* 'add note'
L_add_note ==
    <<"a", "d", "d", " ", "n", "o", "t", "e">>

\* 'search note n'
L_search_note_n ==
    <<"s", "e", "a", "r", "c", "h", " ", "n", "o", "t", "e", " ", "n">>

\* 'show notes'
L_show_notes ==
    <<"s", "h", "o", "w", " ", "n", "o", "t", "e", "s">>

\* 'add reminder x;2025-02-28;23:59'
L_add_reminder_ok ==
    <<"a", "d", "d", " ", "r", "e", "m", "i", "n", "d", "e", "r", " ", "x", ";", "2", "0", "2", "5", "-", "0", "2", "-", "2", "8", ";", "2", "3", ":", "5", "9">>

\* 'add reminder x;2025-02-30;23:59'
L_add_reminder_feb30 ==
    <<"a", "d", "d", " ", "r", "e", "m", "i", "n", "d", "e", "r", " ", "x", ";", "2", "0", "2", "5", "-", "0", "2", "-", "3", "0", ";", "2", "3", ":", "5", "9">>

\* 'add reminder x;2025-02-28'
L_add_reminder_two_fields ==
    <<"a", "d", "d", " ", "r", "e", "m", "i", "n", "d", "e", "r", " ", "x", ";", "2", "0", "2", "5", "-", "0", "2", "-", "2", "8">>

\* 'add reminder say hi;2025-02-28;23:59'
L_add_reminder_say_hi ==
    <<"a", "d", "d", " ", "r", "e", "m", "i", "n", "d", "e", "r", " ", "s", "a", "y", " ", "h", "i", ";", "2", "0", "2", "5", "-", "0", "2", "-", "2", "8", ";", "2", "3", ":", "5", "9">>

\* 'check reminders'
L_check_reminders ==
    <<"c", "h", "e", "c", "k", " ", "r", "e", "m", "i", "n", "d", "e", "r", "s">>

\* 'list reminders'
L_show_reminders ==
    <<"l", "i", "s", "t", " ", "r", "e", "m", "i", "n", "d", "e", "r", "s">>

\* 'define w'
L_define_w ==
    <<"d", "e", "f", "i", "n", "e", " ", "w">>

\* 'define'
L_define ==
    <<"d", "e", "f", "i", "n", "e">>

\* 'vocab'
L_vocab ==
    <<"v", "o", "c", "a", "b">>

\* 'weather in k'
L_weather_in_k ==
    <<"w", "e", "a", "t", "h", "e", "r", " ", "i", "n", " ", "k">>

\* 'news'
L_news ==
    <<"n", "e", "w", "s">>

\* 'fun fact'
L_fact ==
    <<"f", "u", "n", " ", "f", "a", "c", "t">>

\* 'zzz'
L_unknown ==
    <<"z", "z", "z">>

\* 'bye'
L_bye ==
    <<"b", "y", "e">>

\* the lines typed at the prompt
Lines ==
    {L_add_task_a, L_add_task_full, L_add_task_empty_desc, L_add_task_nothing, L_add_task_this, L_add_task_bad_due,
     L_done_1, L_complete_task_x, L_remove_task_1, L_delete_task, L_show_tasks,
     L_add_note_n, L_add_note, L_search_note_n, L_show_notes,
     L_add_reminder_ok, L_add_reminder_feb30, L_add_reminder_two_fields, L_add_reminder_say_hi,
     L_check_reminders, L_show_reminders,
     L_define_w, L_define, L_vocab, L_weather_in_k, L_news, L_fact, L_unknown, L_bye}

\* one turn of the loop: input("You: ").strip().lower(), then the chain
Main ==
    \E line \in Lines :
        /\ pc = "running"
        /\ reads < MaxLines
        /\ reads' = reads + 1
        /\ input' = Lower(Strip(line))
        /\ main(Lower(Strip(line)))
        /\ UNCHANGED clock

NextRouter == Main \/ Tick

SpecRouter == Init /\ [][NextRouter]_vars

-----------------------------------------------------------------------------
(* Properties of the free-text loop *)

\* the text after the leading phrase p of the first ;-field of u
Remainder(u, p) == Strip(RemoveFirst(Split(u, ";")[1], p))

\* a line whose payload is malformed: an empty required field, an id with no
\* digit, a reminder with other than three fields or with a date and time
\* that do not parse
MalformedPayload(u) ==
    \/ StartsWith(u, P_add_task) /\ Remainder(u, P_add_task) = <<>>
    \/ StartsWith(u, P_add_note) /\ Strip(RemoveFirst(u, P_add_note)) = <<>>
    \/ StartsWith(u, P_search_note) /\ Strip(RemoveFirst(u, P_search_note)) = <<>>
    \/ StartsWith(u, P_define) /\ Strip(RemoveFirst(u, P_define)) = <<>>
    \/ /\ \/ StartsWith(u, P_complete_task) \/ StartsWith(u, P_done)
          \/ StartsWith(u, P_remove_task) \/ StartsWith(u, P_delete_task)
       /\ FilterDigits(u) = <<>>
    \/ /\ StartsWith(u, P_add_reminder)
       /\ \/ Len(Split(u, ";")) # 3
          \/ ~StrpTime(Strip(Split(u, ";")[2]) \o <<" ">> \o Strip(Split(u, ";")[3])).ok

\* C6: a line with a malformed payload (wrong field count, an id that is not
\* a number, a date that does not parse, an empty required field such as an
\* empty task description) is answered with an error through the Notifier
\* and changes no slot.
C6_MalformedPayloadRejected ==
    [][(reads' = reads + 1 /\ MalformedPayload(input')) =>
          /\ files' = files
          /\ out' # <<>>
          /\ \A k \in 1..Len(out') : out'[k].msg \in ErrorMsgs]_vars

\* C9: a line that begins with "add task" or "add reminder" reaches that
\* command, whatever words follow the phrase: the phrase is stripped and the
\* rest goes, split at ";", to add_task or add_reminder.
C9_CompoundRoutedByPrefix ==
    /\ (reads > 0 /\ StartsWith(input, P_add_task)) =>
          /\ last.op = "add_task"
          /\ AddTaskInput(input) # <<>> => last.text = AddTaskInput(input)
    /\ (reads > 0 /\ StartsWith(input, P_add_reminder)) => last.op = "add_reminder"

-----------------------------------------------------------------------------
(* Startup: the module-level loop over the four files, then operations *)

\* a task a tasks file may hold from an earlier run
OldTask ==
    [id |-> 1, task |-> <<"t">>, status |-> "pending",
     priority |-> <<"l", "o", "w">>, due |-> NoDue]

\* what a file may hold when the program starts
PriorContents ==
    {AbsentFile, BlankFile, InvalidFile("not_json"), InvalidFile("truncated"),
     JsonFile(JsonOther("null")), JsonFile(JsonOther("object")),
     EmptyListFile}

PriorFiles ==
    {f \in [Slots -> PriorContents \cup {JsonFile(JsonArray(<<OldTask>>))}] :
        \A s \in Slots \ {"tasks"} : f[s] \in PriorContents}

InitStartup ==
    /\ files \in PriorFiles
    /\ out = <<>>
    /\ last = NoOp
    /\ issued = <<>>
    /\ clock = 0
    /\ input = <<>>
    /\ reads = 0
    /\ pc = "startup"

\* for p in (TASKS_FILE, NOTES_FILE, REMINDERS_FILE, HISTORY_FILE): ensure_file(p)
Startup ==
    /\ pc = "startup"
    /\ files' = [s \in Slots |-> ensure_file(files[s])]
    /\ pc' = "running"
    /\ UNCHANGED <<out, last, issued, clock, input, reads>>

N_n == <<"n">>

AddNote ==
    /\ pc = "running"
    /\ Len(Items("notes")) < MaxNotes
    /\ add_note(N_n)
    /\ UNCHANGED <<clock, input, reads>>

NextStartup == Startup \/ AddTask \/ ShowTasks \/ CompleteTask \/ AddNote

SpecStartup == InitStartup /\ [][NextStartup]_vars

\* a file that holds a serialized sequence
WellFormed(content) == content.kind = "json" /\ content.val.jtype = "array"

\* C7: once startup has run, whatever the files held before and whatever
\* operations follow, load_json returns a sequence for every slot, and the
\* empty one for a file that was absent or held no serialized sequence.
C7_LoadAlwaysSequence ==
    [][/\ pc' # "startup" =>
            \A s \in Slots : load_json(files'[s]).jtype = "array"
       /\ (pc = "startup" /\ pc' # "startup") =>
            \A s \in Slots :
                ~WellFormed(files[s]) => load_json(files'[s]) = JsonArray(<<>>)]_vars

\* the repair that startup does make: a missing, blank or unparsable file
\* reads as the empty sequence afterwards
C7_RepairsUnparsable ==
    [][(pc = "startup" /\ pc' # "startup") =>
          \A s \in Slots :
              files[s].kind # "json" => load_json(files'[s]) = JsonArray(<<>>)]_vars

====
